---------------------------- MODULE Spec2Model ----------------------------
(***************************************************************************)
(* A model of s3tui: the object-store listing (providers/s3.rs), the       *)
(* filesystem provider and its streaming copy (providers/filesystem.rs)    *)
(* and the event multiplexer with the application loop (lib.rs).           *)
(*                                                                         *)
(* Strings are sequences of one-character strings, so that split_at, find  *)
(* and matches work on positions as they do in the source.                 *)
(***************************************************************************)
EXTENDS Integers, Sequences, FiniteSets, TLC

VARIABLES
    \* ---- the object store and S3Provider::list_objects ----
    bucket,      \* the keys the bucket holds
    s3Pc,        \* "idle" | "listed" | "deleted"
    s3Prefix,    \* the prefix list_objects was called with (as a string, "" for None)
    s3Response,  \* the contents the backend returned: a sequence of keys
    s3Result,    \* the Vec<S3Object> list_objects returned
    s3Del,       \* what the last delete_object met and did
    \* ---- the local filesystem and get_files_list ----
    fsKind,      \* node -> "absent" | "file" | "dir" | "dangling"
    fsRead,      \* the directory Dir may be read (r)
    fsSearch,    \* the directory Dir may be searched (x): its children's metadata
    glPc,        \* "idle" | "exists" | "metadata" | "read_dir" | "returned" | "panicked"
    glPath,      \* the path get_files_list was called with
    glResult,    \* what it returned
    glStable,    \* the filesystem did not change since the call started
    rfPc,        \* remove_file: "idle" | "exists" | "metadata" | "remove" | "returned"
    rfPath,      \* the path remove_file was called with
    rfResult,    \* what it returned
    rfBefore,    \* fsKind when remove_file was called
    rfStable,    \* no other process changed the filesystem since it was called
    \* ---- write_file_from_stream ----
    xfPc,        \* "idle" | "loop" | "returned" | "panicked"
    xfSrc,       \* the items the source stream yields
    xfPos,       \* how many items were taken from the stream
    xfDest,      \* the chunks written to the destination, in order
    xfResult,    \* what it returned
    xfLost,      \* the chunks whose write was interrupted
    \* ---- the event multiplexer thread and the channel ----
    chan,        \* the mpsc channel's queue
    rxAlive,     \* the Receiver has not been dropped
    txPc,        \* "poll" | "read" | "tick" | "panicked"
    txPanic,     \* the message of the expect that failed, "" when none
    elapsed,     \* last_tick.elapsed(), in milliseconds
    sent,        \* every event sent successfully, in order
    lastRead,    \* what event::read() returned in this iteration: "none" | "other" | a key
    iterSent,    \* the events sent in this iteration of the thread's loop
    sinceTick,   \* time since the last Tick was sent (since the start before that)
    \* ---- the application loop ----
    loopPc,      \* "start" | "recv" | "handle_event" | "render" | "done" |
                 \* "render_failed" | "shutdown_failed" | "panicked"
    received,    \* every event recv() returned, in order
    handled,     \* number of handle_event calls
    teardowns,   \* number of main_screen.shutdown() calls
    inFlight     \* number of handle_event calls started and not completed

s3Vars == <<bucket, s3Pc, s3Prefix, s3Response, s3Result, s3Del>>
rfVars == <<rfPc, rfPath, rfResult, rfBefore, rfStable>>
fsVars == <<fsKind, fsRead, fsSearch, glPc, glPath, glResult, glStable, rfVars>>
xfVars == <<xfPc, xfSrc, xfPos, xfDest, xfResult, xfLost>>
txVars == <<chan, rxAlive, txPc, txPanic, elapsed, sent, lastRead, iterSent, sinceTick>>
loopVars == <<loopPc, received, handled, teardowns, inFlight>>
vars == <<s3Vars, fsVars, xfVars, txVars, loopVars>>

Range(s) == {s[i] : i \in 1..Len(s)}
SeqsUpTo(S, n) == UNION {[1..m -> S] : m \in 0..n}
Last(s) == s[Len(s)]

(***************************************************************************)
(* Part 1.  S3Provider::list_objects                                       *)
(***************************************************************************)

\* Longest key the model puts into the bucket, and how many at a time.
MaxKeyLen == 3
MaxKeys == 2

Alphabet == {"a", "/"}

\* The example of the specification: prefix "docs/" over four keys.
Docs == <<"d","o","c","s","/">>
DocsA == Docs \o <<"a",".","t","x","t">>
DocsSubB == Docs \o <<"s","u","b","/","b",".","t","x","t">>
DocsSubC == Docs \o <<"s","u","b","/","c",".","t","x","t">>
DocsReadme == Docs \o <<"r","e","a","d","m","e",".","m","d">>
DocsBucket == {DocsA, DocsSubB, DocsSubC, DocsReadme}

\* An object key is 1 to 1024 bytes long: never empty.
Keys == (SeqsUpTo(Alphabet, MaxKeyLen) \ {<<>>}) \cup DocsBucket
Prefixes == {<<>>, <<"/">>, <<"a", "/">>, Docs}

\* str::split_at(mid): (the first mid characters, the rest)
split_at(s, mid) == <<SubSeq(s, 1, mid), SubSeq(s, mid + 1, Len(s))>>

\* str::find(c): the 0-based position of the first c, -1 for None
find(s, c) ==
    IF \E i \in 1..Len(s) : s[i] = c
    THEN (CHOOSE i \in 1..Len(s) : s[i] = c /\ \A j \in 1..(i - 1) : s[j] # c) - 1
    ELSE -1

\* str::matches(c).count()
matches_count(s, c) == Cardinality({i \in 1..Len(s) : s[i] = c})

\* str::starts_with
starts_with(s, p) == Len(s) >= Len(p) /\ SubSeq(s, 1, Len(p)) = p

\* A variant of filter_keep that forgets to test the last character in the
\* separator-count branch.
filter_keep_loose(prefix, key) ==
    LET head == split_at(key, Len(prefix))[1]
        name == split_at(key, Len(prefix))[2]
    IN  IF head = <<>>
        THEN find(name, "/") = -1 \/ find(name, "/") = Len(name) - 1
        ELSE IF name = <<>> THEN FALSE
        ELSE matches_count(name, "/") = 0 \/ matches_count(name, "/") = 1

\* The closure given to filter (s3.rs 65-80).
filter_keep(prefix, key) ==
    LET head == split_at(key, Len(prefix))[1]
        name == split_at(key, Len(prefix))[2]
    IN  IF head = <<>>
        THEN IF find(name, "/") = -1 THEN TRUE
             ELSE find(name, "/") = Len(name) - 1
        ELSE IF name = <<>> THEN FALSE
        ELSE LET last_char == Last(name)
                 seperator_count == matches_count(name, "/")
             IN  seperator_count = 0 \/ (seperator_count = 1 /\ last_char = "/")

\* A variant of to_object that strips the trailing separator from a
\* directory's name.
to_object_trimmed(prefix, key) ==
    LET head == split_at(key, Len(prefix))[1]
        file_name == split_at(key, Len(prefix))[2]
    IN  IF Last(file_name) = "/"
        THEN [name |-> SubSeq(file_name, 1, Len(file_name) - 1), prefix |-> head,
              kind |-> "Directory"]
        ELSE [name |-> file_name, prefix |-> head, kind |-> "File"]

\* The closure given to map (s3.rs 81-104), without the metadata fields.
to_object(prefix, key) ==
    LET head == split_at(key, Len(prefix))[1]
        file_name == split_at(key, Len(prefix))[2]
    IN  [name |-> file_name,
         prefix |-> head,
         kind |-> IF Last(file_name) = "/" THEN "Directory" ELSE "File"]

\* response.into_iter().filter(..).map(..).collect()
RECURSIVE filter_map(_, _)
filter_map(prefix, response) ==
    IF response = <<>> THEN <<>>
    ELSE (IF filter_keep(prefix, Head(response))
          THEN <<to_object(prefix, Head(response))>>
          ELSE <<>>) \o filter_map(prefix, Tail(response))

\* The order ListObjectsV2 returns keys in: by character, a prefix first.
CharRank(c) ==
    CASE c = "." -> 1
      [] c = "/" -> 2
      [] OTHER -> 2 + (CHOOSE n \in 1..26 :
                         <<"a","b","c","d","e","f","g","h","i","j","k","l","m",
                           "n","o","p","q","r","s","t","u","v","w","x","y","z">>[n] = c)

RECURSIVE KeyLeq(_, _)
KeyLeq(a, b) ==
    IF a = <<>> THEN TRUE
    ELSE IF b = <<>> THEN FALSE
    ELSE IF Head(a) = Head(b) THEN KeyLeq(Tail(a), Tail(b))
    ELSE CharRank(Head(a)) < CharRank(Head(b))

RECURSIVE SortKeys(_)
SortKeys(S) ==
    IF S = {} THEN <<>>
    ELSE LET m == CHOOSE k \in S : \A j \in S : KeyLeq(k, j)
         IN  <<m>> \o SortKeys(S \ {m})

\* list_objects_v2 with request.prefix: the keys that start with the prefix.
list_objects_v2(prefix) == SortKeys({k \in bucket : starts_with(k, prefix)})

\* S3Provider::put_object: the key is in the bucket afterwards.
PutObject ==
    /\ s3Pc = "idle"
    /\ rfPc = "idle"
    /\ Cardinality(bucket) < MaxKeys
    /\ \E k \in Keys : bucket' = bucket \cup {k}
    /\ UNCHANGED <<s3Pc, s3Prefix, s3Response, s3Result, s3Del>>
    /\ UNCHANGED <<fsVars, xfVars, txVars, loopVars>>

NoDelete == [done |-> FALSE, absent |-> FALSE, ok |-> FALSE, unchanged |-> FALSE]

\* DeleteObject of the object store: the bucket without that one key; a key
\* that is not there is no error.
delete_key(b, k) == b \ {k}

\* S3Provider::delete_object: the key is not in the bucket afterwards, and
\* the backend's answer is returned.
DeleteObject ==
    /\ s3Pc = "idle"
    /\ rfPc = "idle"
    /\ \E k \in Keys :
         /\ bucket' = delete_key(bucket, k)
         /\ s3Del' = [done |-> TRUE, absent |-> k \notin bucket, ok |-> TRUE,
                      unchanged |-> delete_key(bucket, k) = bucket]
    /\ s3Pc' = "deleted"
    /\ UNCHANGED <<s3Prefix, s3Response, s3Result>>
    /\ UNCHANGED <<fsVars, xfVars, txVars, loopVars>>

\* The caller takes delete_object's result.
DeleteReturn ==
    /\ s3Pc = "deleted"
    /\ s3Pc' = "idle"
    /\ s3Del' = NoDelete
    /\ UNCHANGED <<bucket, s3Prefix, s3Response, s3Result>>
    /\ UNCHANGED <<fsVars, xfVars, txVars, loopVars>>

\* S3Provider::list_objects(prefix)
ListObjects ==
    /\ s3Pc = "idle"
    /\ rfPc = "idle"
    /\ \E p \in Prefixes :
         /\ s3Prefix' = p
         /\ s3Response' = list_objects_v2(p)
         /\ s3Result' = filter_map(p, list_objects_v2(p))
    /\ s3Pc' = "listed"
    /\ UNCHANGED <<bucket, s3Del>>
    /\ UNCHANGED <<fsVars, xfVars, txVars, loopVars>>

\* The caller drops the listing.
ListReturn ==
    /\ s3Pc = "listed"
    /\ s3Pc' = "idle"
    /\ s3Prefix' = <<>>
    /\ s3Response' = <<>>
    /\ s3Result' = <<>>
    /\ UNCHANGED <<bucket, s3Del>>
    /\ UNCHANGED <<fsVars, xfVars, txVars, loopVars>>


(***************************************************************************)
(* Part 2.  The local filesystem and get_files_list                        *)
(***************************************************************************)

\* One directory path with two possible children.  A node is absent, a
\* regular file, a directory, or a symbolic link whose target is missing
\* ("dangling": read_dir lists it, fs::metadata fails on it).
Dir == <<"d">>
ChildX == <<"d", "/", "x">>
ChildY == <<"d", "/", "y">>
Nodes == {Dir, ChildX, ChildY}
NodeKinds == {"absent", "file", "dir", "dangling"}
Children(p) == IF p = Dir THEN {ChildX, ChildY} ELSE {}

\* Path::file_name
file_name_of(p) == <<Last(p)>>

\* Path::parent
parent_of(p) == IF p = Dir THEN <<>> ELSE Dir

\* fs::metadata(p).is_ok(): follows links, needs search permission on the parent
metadata_ok(p) ==
    /\ fsKind[p] \in {"file", "dir"}
    /\ p # Dir => (fsKind[Dir] = "dir" /\ fsSearch)

\* Path::exists is fs::metadata(p).is_ok()
exists(p) == metadata_ok(p)

\* Metadata::is_dir
is_dir(p) == fsKind[p] = "dir"

\* fs::read_dir(p).is_ok()
read_dir_ok(p) ==
    /\ metadata_ok(p)
    /\ is_dir(p)
    /\ p = Dir => fsRead

\* The entries read_dir yields: every name in the directory.
read_dir(p) == {c \in Children(p) : fsKind[c] # "absent"}

NoResult == [tag |-> "None", kind |-> "", entries |-> <<>>]
OkEntries(es) == [tag |-> "Ok", kind |-> "", entries |-> es]
ErrKind(k) == [tag |-> "Err", kind |-> k, entries |-> <<>>]

\* The closure given to map (filesystem.rs 72-90) for one entry whose
\* metadata can be read.
to_fs_object(c) ==
    IF is_dir(c)
    THEN [name |-> file_name_of(c) \o <<"/">>, dir |-> parent_of(c), kind |-> "Directory"]
    ELSE [name |-> file_name_of(c), dir |-> parent_of(c), kind |-> "File"]

\* The filesystem at the start: the directory holds one file.
FsKind0 == [n \in Nodes |-> IF n = Dir THEN "dir" ELSE IF n = ChildX THEN "file" ELSE "absent"]

\* The orders in which read_dir may yield a set of entries.
Orders(S) == {s \in [1..Cardinality(S) -> S] : Range(s) = S}

\* Another process creates, replaces or removes a node.  A child exists only
\* in a directory, and only an empty directory is replaced or removed.
EnvSetNode ==
    /\ \E n \in Nodes, k \in NodeKinds :
         /\ k # fsKind[n]
         /\ n # Dir => fsKind[Dir] = "dir" \/ k = "absent"
         /\ (n = Dir /\ k # "dir") => \A c \in Children(Dir) : fsKind[c] = "absent"
         /\ fsKind' = [fsKind EXCEPT ![n] = k]
    /\ glStable' = FALSE
    /\ rfStable' = (rfPc = "idle")
    /\ UNCHANGED <<fsRead, fsSearch, glPc, glPath, glResult>>
    /\ UNCHANGED <<rfPc, rfPath, rfResult, rfBefore>>
    /\ UNCHANGED <<s3Vars, xfVars, txVars, loopVars>>

\* Another process changes the directory's permissions.
EnvChmod ==
    /\ \E r \in BOOLEAN, x \in BOOLEAN :
         /\ <<r, x>> # <<fsRead, fsSearch>>
         /\ fsRead' = r
         /\ fsSearch' = x
    /\ glStable' = FALSE
    /\ rfStable' = (rfPc = "idle")
    /\ UNCHANGED <<fsKind, glPc, glPath, glResult>>
    /\ UNCHANGED <<rfPc, rfPath, rfResult, rfBefore>>
    /\ UNCHANGED <<s3Vars, xfVars, txVars, loopVars>>

\* get_files_list(path) is called.
GlCall ==
    /\ glPc = "idle"
    /\ rfPc = "idle"
    /\ \E p \in Nodes : glPath' = p
    /\ glPc' = "exists"
    /\ glResult' = NoResult
    /\ glStable' = TRUE
    /\ UNCHANGED <<fsKind, fsRead, fsSearch, rfVars>>
    /\ UNCHANGED <<s3Vars, xfVars, txVars, loopVars>>

\* filesystem.rs 65-68: if !path.exists() { return Err(NotFound) }
GlExists ==
    /\ glPc = "exists"
    /\ IF ~exists(glPath)
       THEN glPc' = "returned" /\ glResult' = ErrKind("NotFound")
       ELSE glPc' = "metadata" /\ glResult' = glResult
    /\ UNCHANGED <<fsKind, fsRead, fsSearch, glPath, glStable, rfVars>>
    /\ UNCHANGED <<s3Vars, xfVars, txVars, loopVars>>

\* The branch taken on the directory's metadata (filesystem.rs 69-70, 95-102):
\* where get_files_list goes next.
after_metadata(p) ==
    IF metadata_ok(p)
    THEN IF ~is_dir(p) THEN "read_dir" ELSE "Unsupported"
    ELSE "PermissionDenied"

GlMetadata ==
    /\ glPc = "metadata"
    /\ IF after_metadata(glPath) = "read_dir"
       THEN glPc' = "read_dir" /\ glResult' = glResult
       ELSE glPc' = "returned" /\ glResult' = ErrKind(after_metadata(glPath))
    /\ UNCHANGED <<fsKind, fsRead, fsSearch, glPath, glStable, rfVars>>
    /\ UNCHANGED <<s3Vars, xfVars, txVars, loopVars>>

\* filesystem.rs 71-94: read_dir, then one FilesystemObject per entry; the
\* unwrap of an entry's metadata panics when it cannot be read.
GlReadDir ==
    /\ glPc = "read_dir"
    /\ IF ~read_dir_ok(glPath)
       THEN glPc' = "returned" /\ glResult' = ErrKind("Other")
       ELSE IF \E c \in read_dir(glPath) : ~metadata_ok(c)
       THEN glPc' = "panicked" /\ glResult' = glResult
       ELSE /\ glPc' = "returned"
            /\ \E order \in Orders(read_dir(glPath)) :
                 glResult' = OkEntries([i \in 1..Len(order) |-> to_fs_object(order[i])])
    /\ UNCHANGED <<fsKind, fsRead, fsSearch, glPath, glStable, rfVars>>
    /\ UNCHANGED <<s3Vars, xfVars, txVars, loopVars>>

\* The caller takes the result (or the panic has unwound).
GlReturn ==
    /\ glPc \in {"returned", "panicked"}
    /\ glPc' = "idle"
    /\ glResult' = NoResult
    /\ UNCHANGED <<fsKind, fsRead, fsSearch, glPath, glStable, rfVars>>
    /\ UNCHANGED <<s3Vars, xfVars, txVars, loopVars>>


\* fs::remove_file(p).is_ok(): unlink removes a file or a link, not a
\* directory, and needs the parent to be searched.
unlink_ok(p) ==
    /\ fsKind[p] \in {"file", "dangling"}
    /\ p # Dir => (fsKind[Dir] = "dir" /\ fsSearch)

\* remove_file(path) is called.
RfCall ==
    /\ rfPc = "idle"
    /\ glPc = "idle"
    /\ s3Pc = "idle"
    /\ \E p \in Nodes : rfPath' = p
    /\ rfPc' = "exists"
    /\ rfResult' = NoResult
    /\ rfBefore' = fsKind
    /\ rfStable' = TRUE
    /\ UNCHANGED <<fsKind, fsRead, fsSearch, glPc, glPath, glResult, glStable>>
    /\ UNCHANGED <<s3Vars, xfVars, txVars, loopVars>>

\* A variant of after_rf_exists that takes a missing path for done.
after_rf_exists_lenient(p) == IF ~exists(p) THEN "Ok" ELSE "metadata"

\* filesystem.rs 136-139: if !path.exists() { return Err(NotFound) }
after_rf_exists(p) == IF ~exists(p) THEN "NotFound" ELSE "metadata"

RfExists ==
    /\ rfPc = "exists"
    /\ IF after_rf_exists(rfPath) = "metadata"
       THEN rfPc' = "metadata" /\ rfResult' = rfResult
       ELSE /\ rfPc' = "returned"
            /\ rfResult' = IF after_rf_exists(rfPath) = "Ok"
                           THEN OkEntries(<<>>) ELSE ErrKind(after_rf_exists(rfPath))
    /\ UNCHANGED <<fsKind, fsRead, fsSearch, glPc, glPath, glResult, glStable>>
    /\ UNCHANGED <<rfPath, rfBefore, rfStable>>
    /\ UNCHANGED <<s3Vars, xfVars, txVars, loopVars>>

\* A variant of after_rf_metadata without the directory guard.
after_rf_metadata_unguarded(p) ==
    IF metadata_ok(p) THEN "remove" ELSE "PermissionDenied"

\* filesystem.rs 140-144, 150-153: the branch taken on the file's metadata.
after_rf_metadata(p) ==
    IF metadata_ok(p)
    THEN IF is_dir(p) THEN "Unsupported" ELSE "remove"
    ELSE "PermissionDenied"

RfMetadata ==
    /\ rfPc = "metadata"
    /\ IF after_rf_metadata(rfPath) = "remove"
       THEN rfPc' = "remove" /\ rfResult' = rfResult
       ELSE rfPc' = "returned" /\ rfResult' = ErrKind(after_rf_metadata(rfPath))
    /\ UNCHANGED <<fsKind, fsRead, fsSearch, glPc, glPath, glResult, glStable>>
    /\ UNCHANGED <<rfPath, rfBefore, rfStable>>
    /\ UNCHANGED <<s3Vars, xfVars, txVars, loopVars>>

\* filesystem.rs 145-149, 154: fs::remove_file, its error as PermissionDenied.
RfRemove ==
    /\ rfPc = "remove"
    /\ IF unlink_ok(rfPath)
       THEN /\ fsKind' = [fsKind EXCEPT ![rfPath] = "absent"]
            /\ rfResult' = OkEntries(<<>>)
       ELSE /\ fsKind' = fsKind
            /\ rfResult' = ErrKind("PermissionDenied")
    /\ rfPc' = "returned"
    /\ UNCHANGED <<fsRead, fsSearch, glPc, glPath, glResult, glStable>>
    /\ UNCHANGED <<rfPath, rfBefore, rfStable>>
    /\ UNCHANGED <<s3Vars, xfVars, txVars, loopVars>>

\* The caller takes the result.
RfReturn ==
    /\ rfPc = "returned"
    /\ rfPc' = "idle"
    /\ rfResult' = NoResult
    /\ rfBefore' = FsKind0
    /\ rfStable' = TRUE
    /\ UNCHANGED <<fsKind, fsRead, fsSearch, glPc, glPath, glResult, glStable, rfPath>>
    /\ UNCHANGED <<s3Vars, xfVars, txVars, loopVars>>

(***************************************************************************)
(* Part 3.  write_file_from_stream                                         *)
(***************************************************************************)

\* Longest source stream (in items) and longest source file (in bytes).
MaxChunks == 3

\* The capacity of the BufReader of FileBytesStream and of the BufWriter of
\* write_file_from_stream (both BufReader::new / BufWriter::new defaults),
\* scaled down.
BufCap == 2

\* A file of n bytes; byte i has the value i, so that a byte that is lost,
\* doubled or out of order shows.
FileBytes(n) == [i \in 1..n |-> i]

\* A stream item is Ok(bytes) or Err(err).
OkChunk(bytes) == [ok |-> TRUE, bytes |-> bytes]
ErrItem == [ok |-> FALSE, bytes |-> <<>>]

\* FileBytesStream::poll_next at offset off of file f: the items it may
\* yield.  fill_buf reads at most BufCap bytes, at least one before the end,
\* or fails.
poll_next(f, off) ==
    {OkChunk(SubSeq(f, off + 1, off + k)) :
        k \in 1..(IF Len(f) - off < BufCap THEN Len(f) - off ELSE BufCap)}
      \cup {ErrItem}

\* The streams of at most room items that FileBytesStream yields from offset
\* off on: the stream ends (None) when fill_buf returns no bytes.
RECURSIVE StreamsFrom(_, _, _)
StreamsFrom(f, off, room) ==
    (IF off = Len(f) THEN {<<>>} ELSE {})
      \cup (IF room = 0 THEN {}
           ELSE UNION {{<<it>> \o s :
                          s \in StreamsFrom(f, off + Len(it.bytes), room - 1)} :
                       it \in poll_next(f, off)})

Streams == UNION {StreamsFrom(FileBytes(n), 0, MaxChunks) : n \in 0..MaxChunks}

\* The chunks of a stream, its error items left out.
RECURSIVE ChunksOf(_)
ChunksOf(s) ==
    IF s = <<>> THEN <<>>
    ELSE (IF Head(s) = ErrItem THEN <<>> ELSE <<Head(s)>>) \o ChunksOf(Tail(s))

\* The bytes of a sequence of items, in order.
RECURSIVE BytesOf(_)
BytesOf(s) == IF s = <<>> THEN <<>> ELSE Head(s).bytes \o BytesOf(Tail(s))

\* A variant of write_chunk that puts the chunk before what was written.
write_chunk_front(dest, chunk) == <<chunk>> \o dest

\* writer.write(chunk) accepted the whole chunk: it follows what was written.
write_chunk(dest, chunk) == Append(dest, chunk)

\* filesystem.rs 117-119: File::create succeeded.
XfCreateOk ==
    /\ xfPc = "idle"
    /\ \E s \in Streams : xfSrc' = s
    /\ xfPc' = "loop"
    /\ xfPos' = 0
    /\ xfDest' = <<>>
    /\ xfResult' = NoResult
    /\ xfLost' = <<>>
    /\ UNCHANGED <<s3Vars, fsVars, txVars, loopVars>>

\* filesystem.rs 128-131: File::create failed.
XfCreateFail ==
    /\ xfPc = "idle"
    /\ \E s \in Streams : xfSrc' = s
    /\ xfPc' = "returned"
    /\ xfPos' = 0
    /\ xfDest' = <<>>
    /\ xfResult' = ErrKind("NotFound")
    /\ xfLost' = <<>>
    /\ UNCHANGED <<s3Vars, fsVars, txVars, loopVars>>

\* filesystem.rs 120 and 132: stream.next() is None, the loop ends, Ok(()).
XfEnd ==
    /\ xfPc = "loop"
    /\ xfPos = Len(xfSrc)
    /\ xfPc' = "returned"
    /\ xfResult' = OkEntries(<<>>)
    /\ UNCHANGED <<xfSrc, xfPos, xfDest, xfLost>>
    /\ UNCHANGED <<s3Vars, fsVars, txVars, loopVars>>

\* filesystem.rs 121: chunk.unwrap() on an Err item panics.
XfUnwrapErr ==
    /\ xfPc = "loop"
    /\ xfPos < Len(xfSrc)
    /\ xfSrc[xfPos + 1] = ErrItem
    /\ xfPos' = xfPos + 1
    /\ xfPc' = "panicked"
    /\ UNCHANGED <<xfSrc, xfDest, xfResult, xfLost>>
    /\ UNCHANGED <<s3Vars, fsVars, txVars, loopVars>>

\* filesystem.rs 121: the chunk is written.
XfWriteOk ==
    /\ xfPc = "loop"
    /\ xfPos < Len(xfSrc)
    /\ xfSrc[xfPos + 1] # ErrItem
    /\ xfPos' = xfPos + 1
    /\ xfDest' = write_chunk(xfDest, xfSrc[xfPos + 1])
    /\ UNCHANGED <<xfPc, xfSrc, xfResult, xfLost>>
    /\ UNCHANGED <<s3Vars, fsVars, txVars, loopVars>>

\* filesystem.rs 121: a chunk as long as the BufWriter's capacity is not
\* buffered but handed to File::write, which may write only a part of it and
\* return Ok(n); the count is not looked at.
XfWriteShort ==
    /\ xfPc = "loop"
    /\ xfPos < Len(xfSrc)
    /\ xfSrc[xfPos + 1] # ErrItem
    /\ Len(xfSrc[xfPos + 1].bytes) >= BufCap
    /\ \E n \in 1..(Len(xfSrc[xfPos + 1].bytes) - 1) :
         xfDest' = write_chunk(xfDest, OkChunk(SubSeq(xfSrc[xfPos + 1].bytes, 1, n)))
    /\ xfPos' = xfPos + 1
    /\ UNCHANGED <<xfPc, xfSrc, xfResult, xfLost>>
    /\ UNCHANGED <<s3Vars, fsVars, txVars, loopVars>>

\* filesystem.rs 122-123: the write fails with Interrupted; `continue` goes to
\* the loop's head, which takes the next item from the stream.
XfWriteInterrupted ==
    /\ xfPc = "loop"
    /\ xfPos < Len(xfSrc)
    /\ xfSrc[xfPos + 1] # ErrItem
    /\ xfPos' = xfPos + 1
    /\ xfLost' = Append(xfLost, xfSrc[xfPos + 1])
    /\ UNCHANGED <<xfPc, xfSrc, xfDest, xfResult>>
    /\ UNCHANGED <<s3Vars, fsVars, txVars, loopVars>>

\* filesystem.rs 124: the write fails otherwise; return Err(err).
XfWriteFail ==
    /\ xfPc = "loop"
    /\ xfPos < Len(xfSrc)
    /\ xfSrc[xfPos + 1] # ErrItem
    /\ xfPos' = xfPos + 1
    /\ xfPc' = "returned"
    /\ xfResult' = ErrKind("WriteError")
    /\ UNCHANGED <<xfSrc, xfDest, xfLost>>
    /\ UNCHANGED <<s3Vars, fsVars, txVars, loopVars>>

\* The caller takes the result (or the panic has unwound).
XfReturn ==
    /\ xfPc \in {"returned", "panicked"}
    /\ xfPc' = "idle"
    /\ xfSrc' = <<>>
    /\ xfPos' = 0
    /\ xfDest' = <<>>
    /\ xfResult' = NoResult
    /\ xfLost' = <<>>
    /\ UNCHANGED <<s3Vars, fsVars, txVars, loopVars>>

(***************************************************************************)
(* Part 4.  The event multiplexer thread (App::spawn_sender)               *)
(***************************************************************************)

\* Events sent at most: the model stops the thread's sends there.
MaxEvents == 4

\* Duration::from_millis(200)
tick_rate == 200
\* The model's clock advances in steps of half a tick interval.
Quantum == tick_rate \div 2

KeyCodes == {"Esc", "a", "b"}

Input(k) == [type |-> "Input", key |-> k]
Shutdown == [type |-> "Shutdown", key |-> ""]
Tick == [type |-> "Tick", key |-> ""]

\* A variant of timeout that waits the whole interval whatever has elapsed.
timeout_full == tick_rate

\* tick_rate.checked_sub(last_tick.elapsed()).unwrap_or_else(|| 0)
timeout == IF tick_rate >= elapsed THEN tick_rate - elapsed ELSE 0

\* The clocks of the model stop at this reading.
ClockCap == 2 * tick_rate

\* A clock reading c after waiting d.
clock_after(c, d) == IF c + d > ClockCap THEN ClockCap ELSE c + d

\* lib.rs 59: last_tick.elapsed() >= tick_rate
tick_due(e) == e >= tick_rate

\* A variant of last_tick_after_send that restarts the interval even when the
\* send failed.
last_tick_always_reset(ok, e) == 0

\* lib.rs 60-62: last_tick = Instant::now() only if the send returned Ok;
\* the value is what last_tick.elapsed() reads afterwards.
last_tick_after_send(ok, e) == IF ok THEN 0 ELSE e

\* A variant of send that puts the event at the head of the queue.
send_front(q, e) == <<e>> \o q

\* mpsc: Sender::send appends to the queue.
send(q, e) == Append(q, e)

\* lib.rs 49: event::poll(timeout) fails; expect("timeout") panics.
TxPollErr ==
    /\ txPc = "poll"
    /\ txPc' = "panicked"
    /\ txPanic' = "timeout"
    /\ UNCHANGED <<chan, rxAlive, elapsed, sent, lastRead, iterSent, sinceTick>>
    /\ UNCHANGED <<s3Vars, fsVars, xfVars, loopVars>>

\* lib.rs 49: an event is available after d <= timeout.
TxPollTrue ==
    /\ txPc = "poll"
    /\ \E n \in 0..(timeout \div Quantum) :
         /\ elapsed' = elapsed + n * Quantum
         /\ sinceTick' = clock_after(sinceTick, n * Quantum)
    /\ lastRead' = "none"
    /\ iterSent' = <<>>
    /\ txPc' = "read"
    /\ UNCHANGED <<chan, rxAlive, txPanic, sent>>
    /\ UNCHANGED <<s3Vars, fsVars, xfVars, loopVars>>

\* lib.rs 49: no event within the timeout.
TxPollFalse ==
    /\ txPc = "poll"
    /\ elapsed' = elapsed + timeout
    /\ sinceTick' = clock_after(sinceTick, timeout)
    /\ lastRead' = "none"
    /\ iterSent' = <<>>
    /\ txPc' = "tick"
    /\ UNCHANGED <<chan, rxAlive, txPanic, sent>>
    /\ UNCHANGED <<s3Vars, fsVars, xfVars, loopVars>>

\* lib.rs 50: event::read() fails; expect("key") panics.
TxReadErr ==
    /\ txPc = "read"
    /\ txPc' = "panicked"
    /\ txPanic' = "key"
    /\ UNCHANGED <<chan, rxAlive, elapsed, sent, lastRead, iterSent, sinceTick>>
    /\ UNCHANGED <<s3Vars, fsVars, xfVars, loopVars>>

\* lib.rs 50: the event is not a key (mouse, resize): nothing is sent.
TxReadOther ==
    /\ txPc = "read"
    /\ txPc' = "tick"
    /\ lastRead' = "other"
    /\ UNCHANGED <<chan, rxAlive, txPanic, elapsed, sent, iterSent, sinceTick>>
    /\ UNCHANGED <<s3Vars, fsVars, xfVars, loopVars>>

\* A variant of classify without an exit key.
classify_plain(k) == Input(k)

\* lib.rs 51-55: the event a key becomes.
classify(k) == IF k = "Esc" THEN Shutdown ELSE Input(k)

\* lib.rs 50-55: a key is read and sent.
TxReadKey ==
    /\ txPc = "read"
    /\ rxAlive
    /\ Len(sent) < MaxEvents
    /\ \E k \in KeyCodes :
         /\ chan' = send(chan, classify(k))
         /\ sent' = Append(sent, classify(k))
         /\ iterSent' = Append(iterSent, classify(k))
         /\ lastRead' = k
    /\ txPc' = "tick"
    /\ UNCHANGED <<rxAlive, txPanic, elapsed, sinceTick>>
    /\ UNCHANGED <<s3Vars, fsVars, xfVars, loopVars>>

\* lib.rs 52, 54: the receiver is gone, send returns Err,
\* expect("Can send events") panics.
TxReadKeySendErr ==
    /\ txPc = "read"
    /\ ~rxAlive
    /\ txPc' = "panicked"
    /\ txPanic' = "Can send events"
    /\ UNCHANGED <<chan, rxAlive, elapsed, sent, lastRead, iterSent, sinceTick>>
    /\ UNCHANGED <<s3Vars, fsVars, xfVars, loopVars>>

\* lib.rs 59: the tick is not due.
TxNoTick ==
    /\ txPc = "tick"
    /\ ~tick_due(elapsed)
    /\ txPc' = "poll"
    /\ UNCHANGED <<chan, rxAlive, txPanic, elapsed, sent, lastRead, iterSent, sinceTick>>
    /\ UNCHANGED <<s3Vars, fsVars, xfVars, loopVars>>

\* lib.rs 59-62: the tick is due and sent; last_tick = Instant::now().
TxTick ==
    /\ txPc = "tick"
    /\ tick_due(elapsed)
    /\ rxAlive
    /\ Len(sent) < MaxEvents
    /\ chan' = send(chan, Tick)
    /\ sent' = Append(sent, Tick)
    /\ iterSent' = Append(iterSent, Tick)
    /\ elapsed' = last_tick_after_send(TRUE, elapsed)
    /\ sinceTick' = 0
    /\ txPc' = "poll"
    /\ UNCHANGED <<rxAlive, txPanic, lastRead>>
    /\ UNCHANGED <<s3Vars, fsVars, xfVars, loopVars>>

\* lib.rs 60: the receiver is gone, send returns Err, last_tick stays.
TxTickSendErr ==
    /\ txPc = "tick"
    /\ tick_due(elapsed)
    /\ ~rxAlive
    /\ elapsed' = last_tick_after_send(FALSE, elapsed)
    /\ txPc' = "poll"
    /\ UNCHANGED <<chan, rxAlive, txPanic, sent, lastRead, iterSent, sinceTick>>
    /\ UNCHANGED <<s3Vars, fsVars, xfVars, loopVars>>

(***************************************************************************)
(* Part 5.  The application loop (App::run, App::handle_key)               *)
(***************************************************************************)

LoopEnded == loopPc \in {"done", "render_failed", "shutdown_failed", "panicked"}

\* lib.rs 90: self.main_screen.render()? succeeds.
LoopStartOk ==
    /\ loopPc = "start"
    /\ loopPc' = "recv"
    /\ UNCHANGED <<received, handled, teardowns, inFlight, txVars>>
    /\ UNCHANGED <<s3Vars, fsVars, xfVars>>

\* lib.rs 90: the first render fails; run returns the error.
LoopStartFail ==
    /\ loopPc = "start"
    /\ loopPc' = "render_failed"
    /\ UNCHANGED <<received, handled, teardowns, inFlight, txVars>>
    /\ UNCHANGED <<s3Vars, fsVars, xfVars>>

\* A variant of after_input in which handle_key is started and not awaited.
after_input_spawned(e) == "recv"

\* lib.rs 93: self.handle_key(e).await: the loop is inside handle_key.
after_input(e) == "handle_event"

\* A variant of after_tick that treats the tick as a key.
after_tick_handled(e) == "handle_event"

\* lib.rs 98: Event::Tick => (): the loop is back at recv().
after_tick(e) == "recv"

\* lib.rs 92-93: recv() returns an Input; handle_key starts.
LoopRecvInput ==
    /\ loopPc = "recv"
    /\ chan # <<>>
    /\ Head(chan).type = "Input"
    /\ chan' = Tail(chan)
    /\ received' = Append(received, Head(chan))
    /\ handled' = handled + 1
    /\ inFlight' = inFlight + 1
    /\ loopPc' = after_input(Head(chan))
    /\ UNCHANGED <<teardowns, rxAlive, txPc, txPanic, elapsed, sent, lastRead, iterSent, sinceTick>>
    /\ UNCHANGED <<s3Vars, fsVars, xfVars>>

\* lib.rs 98: recv() returns a Tick: nothing.
LoopRecvTick ==
    /\ loopPc = "recv"
    /\ chan # <<>>
    /\ Head(chan).type = "Tick"
    /\ chan' = Tail(chan)
    /\ received' = Append(received, Head(chan))
    /\ loopPc' = after_tick(Head(chan))
    /\ UNCHANGED <<handled, teardowns, inFlight>>
    /\ UNCHANGED <<rxAlive, txPc, txPanic, elapsed, sent, lastRead, iterSent, sinceTick>>
    /\ UNCHANGED <<s3Vars, fsVars, xfVars>>

\* A variant of after_shutdown without the break.
after_shutdown_continue(ok) == IF ok THEN "recv" ELSE "shutdown_failed"

\* lib.rs 94-97: where the loop is after main_screen.shutdown()? returned.
after_shutdown(ok) == IF ok THEN "done" ELSE "shutdown_failed"

\* lib.rs 94-97: recv() returns Shutdown; teardown, then break (or the error).
LoopRecvShutdown ==
    /\ loopPc = "recv"
    /\ chan # <<>>
    /\ Head(chan).type = "Shutdown"
    /\ chan' = Tail(chan)
    /\ received' = Append(received, Head(chan))
    /\ teardowns' = teardowns + 1
    /\ \E ok \in BOOLEAN : loopPc' = after_shutdown(ok)
    /\ UNCHANGED <<handled, inFlight, rxAlive, txPc, txPanic, elapsed, sent, lastRead, iterSent, sinceTick>>
    /\ UNCHANGED <<s3Vars, fsVars, xfVars>>

\* lib.rs 92: the queue is empty and the sender is gone: recv() is Err and
\* unwrap panics.
LoopRecvDisconnected ==
    /\ loopPc = "recv"
    /\ chan = <<>>
    /\ txPc = "panicked"
    /\ loopPc' = "panicked"
    /\ UNCHANGED <<received, handled, teardowns, inFlight, txVars>>
    /\ UNCHANGED <<s3Vars, fsVars, xfVars>>

\* lib.rs 105: main_screen.handle_event(key).await completes.
LoopHandleEvent ==
    /\ loopPc = "handle_event"
    /\ loopPc' = "render"
    /\ inFlight' = inFlight - 1
    /\ UNCHANGED <<received, handled, teardowns, txVars>>
    /\ UNCHANGED <<s3Vars, fsVars, xfVars>>

\* lib.rs 106: render() succeeds.
LoopRenderOk ==
    /\ loopPc = "render"
    /\ loopPc' = "recv"
    /\ UNCHANGED <<received, handled, teardowns, inFlight, txVars>>
    /\ UNCHANGED <<s3Vars, fsVars, xfVars>>

\* lib.rs 106: render() fails and unwrap panics.
LoopRenderFail ==
    /\ loopPc = "render"
    /\ loopPc' = "panicked"
    /\ UNCHANGED <<received, handled, teardowns, inFlight, txVars>>
    /\ UNCHANGED <<s3Vars, fsVars, xfVars>>

\* lib.rs 31-34: the App, and the Receiver it owns, is dropped after run ended.
DropApp ==
    /\ LoopEnded
    /\ rxAlive
    /\ rxAlive' = FALSE
    /\ chan' = <<>>
    /\ UNCHANGED <<loopVars, txPc, txPanic, elapsed, sent, lastRead, iterSent, sinceTick>>
    /\ UNCHANGED <<s3Vars, fsVars, xfVars>>

(***************************************************************************)
(* The specifications: one per component, the others at rest.              *)
(***************************************************************************)

\* The state after construction (App::new): an empty bucket, a directory
\* holding one file, no call in progress, the multiplexer thread spawned and
\* the application loop about to run.
Init ==
    /\ bucket = {}
    /\ s3Pc = "idle"
    /\ s3Prefix = <<>>
    /\ s3Response = <<>>
    /\ s3Result = <<>>
    /\ s3Del = NoDelete
    /\ fsKind = FsKind0
    /\ fsRead = TRUE
    /\ fsSearch = TRUE
    /\ glPc = "idle"
    /\ glPath = Dir
    /\ glResult = NoResult
    /\ glStable = TRUE
    /\ rfPc = "idle"
    /\ rfPath = Dir
    /\ rfResult = NoResult
    /\ rfBefore = FsKind0
    /\ rfStable = TRUE
    /\ xfPc = "idle"
    /\ xfSrc = <<>>
    /\ xfPos = 0
    /\ xfDest = <<>>
    /\ xfResult = NoResult
    /\ xfLost = <<>>
    /\ chan = <<>>
    /\ rxAlive = TRUE
    /\ txPc = "poll"
    /\ txPanic = ""
    /\ elapsed = 0
    /\ sent = <<>>
    /\ lastRead = "none"
    /\ iterSent = <<>>
    /\ sinceTick = 0
    /\ loopPc = "start"
    /\ received = <<>>
    /\ handled = 0
    /\ teardowns = 0
    /\ inFlight = 0

\* The same, over a bucket that is empty or holds the keys of the example.
InitList ==
    /\ bucket \in {{}, DocsBucket}
    /\ s3Pc = "idle"
    /\ s3Prefix = <<>>
    /\ s3Response = <<>>
    /\ s3Result = <<>>
    /\ s3Del = NoDelete
    /\ fsKind = FsKind0
    /\ fsRead = TRUE
    /\ fsSearch = TRUE
    /\ glPc = "idle"
    /\ glPath = Dir
    /\ glResult = NoResult
    /\ glStable = TRUE
    /\ rfPc = "idle"
    /\ rfPath = Dir
    /\ rfResult = NoResult
    /\ rfBefore = FsKind0
    /\ rfStable = TRUE
    /\ xfPc = "idle"
    /\ xfSrc = <<>>
    /\ xfPos = 0
    /\ xfDest = <<>>
    /\ xfResult = NoResult
    /\ xfLost = <<>>
    /\ chan = <<>>
    /\ rxAlive = TRUE
    /\ txPc = "poll"
    /\ txPanic = ""
    /\ elapsed = 0
    /\ sent = <<>>
    /\ lastRead = "none"
    /\ iterSent = <<>>
    /\ sinceTick = 0
    /\ loopPc = "start"
    /\ received = <<>>
    /\ handled = 0
    /\ teardowns = 0
    /\ inFlight = 0

NextList == PutObject \/ DeleteObject \/ DeleteReturn \/ ListObjects \/ ListReturn

NextFs ==
    \/ EnvSetNode \/ EnvChmod
    \/ GlCall \/ GlExists \/ GlMetadata \/ GlReadDir \/ GlReturn
    \/ RfCall \/ RfExists \/ RfMetadata \/ RfRemove \/ RfReturn

\* The two deletes: the object store's and the filesystem's.
NextDelete ==
    \/ PutObject \/ DeleteObject \/ DeleteReturn
    \/ RfCall \/ RfExists \/ RfMetadata \/ RfRemove \/ RfReturn

NextXfer ==
    \/ XfCreateOk \/ XfCreateFail \/ XfEnd \/ XfUnwrapErr
    \/ XfWriteOk \/ XfWriteShort \/ XfWriteInterrupted \/ XfWriteFail \/ XfReturn

\* The multiplexer thread alone, its receiver alive.
NextTx ==
    \/ TxPollErr \/ TxPollTrue \/ TxPollFalse
    \/ TxReadErr \/ TxReadOther \/ TxReadKey
    \/ TxNoTick \/ TxTick

NextApp ==
    \/ TxPollErr \/ TxPollTrue \/ TxPollFalse
    \/ TxReadErr \/ TxReadOther \/ TxReadKey \/ TxReadKeySendErr
    \/ TxNoTick \/ TxTick \/ TxTickSendErr
    \/ LoopStartOk \/ LoopStartFail
    \/ LoopRecvInput \/ LoopRecvTick \/ LoopRecvShutdown \/ LoopRecvDisconnected
    \/ LoopHandleEvent \/ LoopRenderOk \/ LoopRenderFail
    \/ DropApp

SpecList == InitList /\ [][NextList]_vars
SpecFs == Init /\ [][NextFs]_vars
SpecDelete == Init /\ [][NextDelete]_vars
SpecXfer == Init /\ [][NextXfer]_vars
SpecApp == Init /\ [][NextApp]_vars

\* The application loop is a running task: each of its steps is taken when it
\* stays possible, and a handler in flight completes.
\* Wall-clock time advances while the thread waits in event::poll.
TimePasses == (TxPollTrue \/ TxPollFalse) /\ elapsed' > elapsed

\* The multiplexer thread keeps running, and time does not stand still.
SpecTx == Init /\ [][NextTx]_vars
FairSpecTx == SpecTx /\ WF_vars(NextTx) /\ SF_vars(TimePasses)

FairSpecApp ==
    /\ SpecApp
    /\ WF_vars(LoopStartOk \/ LoopStartFail)
    /\ WF_vars(LoopRecvInput)
    /\ WF_vars(LoopRecvTick)
    /\ WF_vars(LoopRecvShutdown)
    /\ WF_vars(LoopHandleEvent)
    /\ WF_vars(LoopRenderOk \/ LoopRenderFail)

(***************************************************************************)
(* The claims                                                              *)
(***************************************************************************)

\* What is left of a returned key after the prefix.
RestOf(key) == SubSeq(key, Len(s3Prefix) + 1, Len(key))

NoSeparator(rest) == \A i \in 1..Len(rest) : rest[i] # "/"
OneTrailingSeparator(rest) ==
    /\ rest # <<>>
    /\ rest[Len(rest)] = "/"
    /\ \A i \in 1..(Len(rest) - 1) : rest[i] # "/"

\* A key more than one level under the prefix, and its first-level directory.
Deeper(rest) == \E i \in 1..(Len(rest) - 1) : rest[i] = "/"
FirstLevel(rest) ==
    SubSeq(rest, 1, CHOOSE i \in 1..Len(rest) :
                      rest[i] = "/" /\ \A j \in 1..(i - 1) : rest[j] # "/")

DocsEntries ==
    { [name |-> <<"a",".","t","x","t">>, prefix |-> Docs, kind |-> "File"],
      [name |-> <<"r","e","a","d","m","e",".","m","d">>, prefix |-> Docs, kind |-> "File"],
      [name |-> <<"s","u","b","/">>, prefix |-> Docs, kind |-> "Directory"] }

\* C1: after list_objects(prefix), every returned key that lies deeper than
\* one level under the prefix is represented by exactly one Directory entry
\* named after its first-level directory; for prefix "docs/" over the four
\* keys of the example the result is exactly File a.txt, File readme.md and
\* Directory sub/.
C1_DeeperKeysCollapse ==
    s3Pc = "listed" =>
      /\ \A i \in 1..Len(s3Response) :
           Deeper(RestOf(s3Response[i])) =>
             Cardinality({j \in 1..Len(s3Result) :
                            /\ s3Result[j].name = FirstLevel(RestOf(s3Response[i]))
                            /\ s3Result[j].kind = "Directory"}) = 1
      /\ (s3Prefix = Docs /\ Range(s3Response) = DocsBucket) =>
           (Len(s3Result) = 3 /\ Range(s3Result) = DocsEntries)

\* C2: list_objects retains a key iff its rest is non-empty and has no
\* separator (a File named rest) or exactly one separator, its last character
\* (a Directory named rest); every other key is excluded; the same for the
\* empty and for a non-empty prefix.
C2_RetainRule ==
    s3Pc = "listed" =>
      /\ \A i \in 1..Len(s3Response) :
           LET rest == RestOf(s3Response[i])
               isFile == rest # <<>> /\ NoSeparator(rest)
               isDir == OneTrailingSeparator(rest)
           IN  /\ (\E j \in 1..Len(s3Result) : s3Result[j].name = rest)
                     <=> (isFile \/ isDir)
               /\ isFile => \E j \in 1..Len(s3Result) :
                     s3Result[j].name = rest /\ s3Result[j].kind = "File"
               /\ isDir => \E j \in 1..Len(s3Result) :
                     s3Result[j].name = rest /\ s3Result[j].kind = "Directory"
      /\ Len(s3Result) =
           Cardinality({i \in 1..Len(s3Response) :
              LET rest == RestOf(s3Response[i])
              IN  (rest # <<>> /\ NoSeparator(rest)) \/ OneTrailingSeparator(rest)})

\* C2's case: under a non-empty prefix a Directory is retained and another
\* key is excluded.
C2_Witness ==
    /\ s3Pc = "listed"
    /\ s3Prefix = <<"a", "/">>
    /\ \E j \in 1..Len(s3Result) : s3Result[j].kind = "Directory"
    /\ Len(s3Result) < Len(s3Response)

\* C3: the entries list_objects returns are pairwise distinct by name, no key
\* yields more than one entry, and prefix + name of every entry is exactly
\* one key of the keys returned by the backend.
C3_EntriesDistinct ==
    s3Pc = "listed" =>
      /\ \A i, j \in 1..Len(s3Result) :
           i # j => s3Result[i].name # s3Result[j].name
      /\ \A i \in 1..Len(s3Response) :
           Cardinality({j \in 1..Len(s3Result) :
                          s3Prefix \o s3Result[j].name = s3Response[i]}) <= 1
      /\ \A j \in 1..Len(s3Result) :
           Cardinality({i \in 1..Len(s3Response) :
                          s3Response[i] = s3Prefix \o s3Result[j].name}) = 1

\* C3's case: a listing of the whole bucket that returns a File and a
\* Directory.
C3_Witness ==
    /\ s3Pc = "listed"
    /\ s3Prefix = <<>>
    /\ Len(s3Result) = 2
    /\ {s3Result[1].kind, s3Result[2].kind} = {"File", "Directory"}

\* C4: get_files_list(path) returns the entries of the immediate children of
\* an existing readable directory, fails with NotFound when the path does not
\* exist, and with Unsupported when it exists and is not a directory (stated
\* for a call during which the filesystem did not change).
C4_ListingResult ==
    (glPc = "returned" /\ glStable) =>
      /\ ~exists(glPath) => glResult = ErrKind("NotFound")
      /\ (exists(glPath) /\ ~is_dir(glPath)) => glResult = ErrKind("Unsupported")
      /\ (read_dir_ok(glPath) /\ \A c \in read_dir(glPath) : metadata_ok(c)) =>
           /\ glResult.tag = "Ok"
           /\ Range(glResult.entries) = {to_fs_object(c) : c \in read_dir(glPath)}

\* C5: a chunk whose write is interrupted is written again before a later
\* chunk is taken, so every chunk taken so far is in the destination and a
\* successful transfer misses no chunk; any other write failure stops the
\* transfer at that chunk and is returned (stated for transfers in which
\* every chunk written was written whole).
C5_InterruptedChunkRetried ==
    (\A i \in 1..Len(xfDest) : xfDest[i] \in Range(xfSrc)) =>
      /\ xfPc = "loop" => xfDest = SubSeq(xfSrc, 1, xfPos)
      /\ (xfPc = "returned" /\ xfResult.tag = "Ok") => xfDest = xfSrc
      /\ (xfPc = "returned" /\ xfResult = ErrKind("WriteError")) =>
           xfDest = SubSeq(xfSrc, 1, xfPos - 1)

\* C6: while the receiver lives, the events received followed by the events
\* still queued are exactly the events sent, in the order sent: none is lost,
\* duplicated or reordered.
C6_FifoExactlyOnce ==
    /\ Len(received) <= Len(sent)
    /\ received = SubSeq(sent, 1, Len(received))
    /\ rxAlive => sent = received \o chan

\* C6's case: Input, Tick, Input, Shutdown was generated and received.
C6_Witness ==
    /\ sent = <<Input("a"), Tick, Input("b"), Shutdown>>
    /\ received = sent

\* C7: when a Shutdown is received the loop performs the teardown once and
\* exits; after that no Input is handled and nothing more is received; and
\* once a Shutdown is in the channel the loop eventually ends (it exits, or a
\* handler before the Shutdown did not complete).
C7_ShutdownTerminal ==
    /\ [](/\ teardowns <= 1
          /\ (received # <<>> /\ Last(received) = Shutdown) =>
               (loopPc \in {"done", "shutdown_failed"} /\ teardowns = 1))
    /\ [][(\E i \in 1..Len(received) : received[i] = Shutdown) =>
            (handled' = handled /\ received' = received /\ teardowns' = teardowns)]_vars
    /\ ((\E i \in 1..Len(chan) : chan[i] = Shutdown) ~> LoopEnded)

\* C7's case: the loop has exited on Shutdown and an Input enqueued after it
\* stays in the channel.
C7_Witness ==
    /\ loopPc = "done"
    /\ teardowns = 1
    /\ Last(received) = Shutdown
    /\ \E i \in 1..Len(chan) : chan[i].type = "Input"

\* C8: after the receiver was dropped every send of the multiplexer thread is
\* discarded and the thread keeps running: no send makes it fail.
C8_SendAfterDropIsSilent ==
    /\ ~rxAlive => txPanic # "Can send events"
    /\ ~rxAlive => chan = <<>>

\* C9: after startup the loop ends only by processing a Shutdown event.
C9_LoopEndsOnlyOnShutdown ==
    loopPc \in {"done", "shutdown_failed", "panicked"} =>
      (received # <<>> /\ Last(received) = Shutdown)

\* C10: for every source stream write_file_from_stream returns Ok or an Err;
\* an error item of the stream is returned as that error, never a panic.
C10_TransferReturns ==
    /\ xfPc # "panicked"
    /\ xfPc = "returned" => xfResult.tag \in {"Ok", "Err"}
    /\ (xfPos > 0 /\ xfSrc[xfPos] = ErrItem) =>
         (xfPc = "returned" /\ xfResult = ErrKind("ReadError"))

\* C11: when the metadata of one child cannot be read during get_files_list
\* the listing still succeeds: it does not panic, that child is returned with
\* kind Unknown and every other child with its own File or Directory kind.
C11_UnknownKindDegradation ==
    /\ glPc # "panicked"
    /\ (glPc = "returned" /\ glStable /\ glResult.tag = "Ok") =>
         \A c \in read_dir(glPath) :
           \E i \in 1..Len(glResult.entries) :
             /\ glResult.entries[i].dir = parent_of(c)
             /\ glResult.entries[i].kind =
                  IF metadata_ok(c) THEN to_fs_object(c).kind ELSE "Unknown"

\* C12: round trip: a file read through FileBytesStream and written by
\* write_file_from_stream with no write failure gives a destination whose
\* bytes are those of the source, for a source of 0 bytes, of 1 byte and of
\* more bytes than one read-buffer chunk.
C12_RoundTrip ==
    (xfPc = "returned" /\ xfResult.tag = "Ok" /\ xfLost = <<>>) =>
      BytesOf(xfDest) = BytesOf(xfSrc)

\* C13: write_file_from_stream returns success only after the source stream
\* reported its end, never while items remain, and what it has written is in
\* the order the source produced it.
C13_SuccessOnlyAtEnd ==
    /\ (xfPc = "returned" /\ xfResult.tag = "Ok") => xfPos = Len(xfSrc)
    /\ \A i, j \in 1..Len(BytesOf(xfDest)) :
         i < j => BytesOf(xfDest)[i] < BytesOf(xfDest)[j]
    /\ \A i \in 1..Len(xfDest) :
         \E j \in 1..xfPos : /\ xfSrc[j] # ErrItem
                             /\ Len(xfDest[i].bytes) <= Len(xfSrc[j].bytes)
                             /\ xfDest[i].bytes = SubSeq(xfSrc[j].bytes, 1, Len(xfDest[i].bytes))

\* C13's case: success after a stream of several chunks, all taken.
C13_Witness ==
    /\ xfPc = "returned"
    /\ xfResult.tag = "Ok"
    /\ Len(xfSrc) >= 2
    /\ Len(xfDest) >= 2

\* The path could be reached when remove_file was called.
RfReachable == rfPath = Dir \/ (rfBefore[Dir] = "dir" /\ fsSearch)

\* C14: remove_file on a directory returns Unsupported and leaves the
\* directory and its contents as they were; on a regular file it removes
\* that file and nothing else; when it fails nothing is changed (stated for a
\* call during which no other process changed the filesystem).
C14_RemoveFileFrame ==
    (rfPc = "returned" /\ rfStable) =>
      /\ (rfBefore[rfPath] = "dir" /\ RfReachable) =>
           (rfResult = ErrKind("Unsupported") /\ fsKind = rfBefore)
      /\ (rfBefore[rfPath] = "file" /\ RfReachable) =>
           (rfResult.tag = "Ok" /\ fsKind = [rfBefore EXCEPT ![rfPath] = "absent"])
      /\ rfResult.tag = "Ok" => rfBefore[rfPath] = "file"
      /\ rfResult.tag = "Err" => fsKind = rfBefore

\* C14's case: remove_file removed a regular file whose directory holds
\* another node.
C14_Witness ==
    /\ rfPc = "returned"
    /\ rfStable
    /\ rfPath = ChildX
    /\ rfBefore[ChildX] = "file"
    /\ rfResult.tag = "Ok"
    /\ fsKind[Dir] = "dir"
    /\ fsKind[ChildY] # "absent"

\* C15: delete_object on a key that is already absent succeeds and leaves the
\* bucket as it was, while remove_file on a path that is already absent fails
\* with NotFound and changes nothing.
C15_DeleteAsymmetry ==
    /\ (s3Pc = "deleted" /\ s3Del.absent) => (s3Del.ok /\ s3Del.unchanged)
    /\ (rfPc = "returned" /\ rfStable /\ rfBefore[rfPath] = "absent") =>
         (rfResult = ErrKind("NotFound") /\ fsKind = rfBefore)

\* C15's case: delete_object was given a key that a bucket holding another
\* key does not hold.
C15_Witness ==
    /\ s3Pc = "deleted"
    /\ s3Del.absent
    /\ s3Del.ok
    /\ bucket # {}

\* C16: the loop takes an event from the channel only when no handle_key is
\* in progress, so at most one handle_event (and the provider call it makes)
\* is in flight, whatever the multiplexer has queued meanwhile.
C16_OneEventAtATime ==
    [][ /\ inFlight' <= 1
        /\ received' # received => (loopPc = "recv" /\ inFlight = 0)
        /\ inFlight' = 1 => (loopPc' = "handle_event" /\ Last(received').type = "Input")
      ]_vars

\* C16's case: a handle_event is in flight while two more events wait.
C16_Witness ==
    /\ loopPc = "handle_event"
    /\ inFlight = 1
    /\ Len(chan) >= 2

NumTicks(s) == Cardinality({i \in 1..Len(s) : s[i] = Tick})

\* Time left until the next tick is due.
Remaining == IF elapsed <= tick_rate THEN tick_rate - elapsed ELSE 0

\* C17: the poll wait never exceeds the time left until the next tick is
\* due; an iteration that finds the interval elapsed sends a Tick; and while
\* the thread runs and the receiver lives, every Tick is followed by another
\* (up to the number of events the model sends).
C17_TickNotStarved ==
    /\ [][ /\ txPc = "poll" => elapsed' - elapsed <= Remaining
           /\ (txPc = "tick" /\ elapsed >= tick_rate /\ rxAlive /\ txPc' = "poll")
                => sent' = Append(sent, Tick)
         ]_vars
    /\ \A n \in 1..MaxEvents :
         (NumTicks(sent) = n) ~>
           (NumTicks(sent) > n \/ txPc = "panicked" \/ ~rxAlive \/ Len(sent) >= MaxEvents)

\* C17's case: two Ticks with keys read between them.
C17_Witness ==
    /\ Len(sent) >= 4
    /\ sent[1] = Tick
    /\ sent[2].type = "Input"
    /\ sent[3].type = "Input"
    /\ sent[4] = Tick

\* C18: the step that receives a Tick starts no handle_event, so no provider
\* operation runs and nothing a key handler changes is changed.
C18_TickChangesNothing ==
    [][ (received' # received /\ Last(received') = Tick) =>
          /\ loopPc' = loopPc
          /\ UNCHANGED <<handled, inFlight, teardowns>>
          /\ UNCHANGED <<s3Vars, fsVars, xfVars>>
      ]_vars

\* C18's case: a Tick was received after a key had been handled.
C18_Witness ==
    /\ handled >= 1
    /\ received # <<>>
    /\ Last(received) = Tick
    /\ loopPc = "recv"

\* C19: a read that yields Esc sends one Shutdown and nothing else, a read
\* that yields another key sends one Input carrying that key, and a read that
\* yields no key sends nothing (the receiver being alive).
C19_Classification ==
    [][ (txPc = "read" /\ txPc' = "tick") =>
          /\ lastRead' = "Esc" =>
               (sent' = Append(sent, Shutdown) /\ chan' = Append(chan, Shutdown))
          /\ lastRead' \in KeyCodes \ {"Esc"} =>
               (sent' = Append(sent, Input(lastRead')) /\ chan' = Append(chan, Input(lastRead')))
          /\ lastRead' = "other" => (sent' = sent /\ chan' = chan)
          /\ lastRead' \in KeyCodes \cup {"other"}
      ]_vars

\* C19's case: Esc was read after another key and became the Shutdown.
C19_Witness ==
    /\ txPc = "tick"
    /\ lastRead = "Esc"
    /\ Len(sent) >= 2
    /\ sent[Len(sent)] = Shutdown
    /\ sent[Len(sent) - 1].type = "Input"

\* C20: last_tick restarts only in a step that sends a Tick; a Tick is sent
\* only when a whole interval passed since the one before; and an iteration
\* sends at most one key's event and then at most one Tick.
C20_TickSpacing ==
    [][ /\ elapsed' < elapsed => (sent' = Append(sent, Tick) /\ chan' = Append(chan, Tick))
        /\ (sent' # sent /\ Last(sent') = Tick) => sinceTick >= tick_rate
        /\ Len(iterSent') <= 2
        /\ Len(iterSent') = 2 => (iterSent'[1] # Tick /\ iterSent'[2] = Tick)
      ]_vars

\* C20's case: an iteration sent a key's event and then the second Tick.
C20_Witness ==
    /\ iterSent = <<Input("a"), Tick>>
    /\ Len(sent) >= 3
    /\ sent[Len(sent) - 2] = Tick

=============================================================================
